---- MODULE Spec2Model ----
(***************************************************************************)
(* Badge PNG API (src/index.js): the name-to-two-lines planner, the badge  *)
(* layout arithmetic of renderBadgePng, parameter parsing and the request  *)
(* handler.                                                                *)
(*                                                                         *)
(* Strings are sequences of one-character strings.  Numbers that the code  *)
(* keeps as IEEE doubles are modelled exactly: a dpi is a numerator over   *)
(* DpiDen, a vertical position a numerator over VIRTUAL_H.  Math.round is  *)
(* the nearest integer with a tie going up; on the canvas sizes of the dpi *)
(* range the doubles round to the same integers as the exact values.       *)
(*                                                                         *)
(* The two planner functions are synchronous and run in one step.          *)
(* renderBadgePng and handleBadgeRequest are async: each is one step per   *)
(* stretch between awaits, and two calls are in flight, so that any other  *)
(* call's steps can fall between two steps of a call.  What the calls      *)
(* share is the console, to which splitNameIntoTwoLines logs.              *)
(***************************************************************************)
EXTENDS Integers, Sequences, FiniteSets, TLC

VARIABLES pc,
          splitArgs, splitLog, plan,
          truncArgs, truncResults,
          at, renderInput, renderArgs, layout, renderFails, renderOutcome,
          request, storeReply, response

varsSplit  == <<splitArgs, splitLog, plan>>
varsTrunc  == <<truncArgs, truncResults>>
varsRender ==
  <<at, renderInput, renderArgs, layout, renderFails, renderOutcome>>
varsHandle == <<request, storeReply, response>>
vars == <<pc, splitArgs, splitLog, plan, truncArgs, truncResults,
          at, renderInput, renderArgs, layout, renderFails, renderOutcome,
          request, storeReply, response>>

----------------------------------------------------------------------------
(* Bounds of the model *)

\* longest name handed to splitNameIntoTwoLines
MaxNameLen == 6
\* numeric caps supplied by a caller range over -MaxNegCap .. MaxRawCap
MaxRawCap == 4
\* longest text handed to truncateToMaxChars on its own
MaxTextLen == 5
\* largest cap handed to truncateToMaxChars on its own
MaxTruncCap == 4
\* number of successive truncateToMaxChars applications
MaxTruncCalls == 3

MaxNegCap == 2

\* dpi values are the multiples of 1/DpiDen
DpiDen == 2
\* how far below MIN_DPI and above MAX_DPI the supplied dpi values reach
DpiMargin == 2

----------------------------------------------------------------------------
(* Program constants *)

DEFAULT_DPI == 300
MIN_DPI == 72
MAX_DPI == 1200
DEFAULT_MAX_CHARS_LINE1 == 15
DEFAULT_MAX_CHARS_LINE2 == 15
MM_WIDTH == 50
MM_HEIGHT == 80
VIRTUAL_W == 500
VIRTUAL_H == 800
layoutBase == [marginTop |-> 40, titleFont |-> 140, secondFont |-> 140,
               lineGap |-> 40, afterTextGap |-> 220, qrSize |-> 330]
topPaddingPx == 30
bottomPaddingPx == 30
sidePaddingPx == 0

----------------------------------------------------------------------------
(* Strings *)

Alphabet == {"a", "b", " "}

Str(n) == UNION {[1..k -> Alphabet] : k \in 0..n}

Max(a, b) == IF a >= b THEN a ELSE b
Min(a, b) == IF a <= b THEN a ELSE b
Abs(a) == IF a >= 0 THEN a ELSE -a

IsSpace(c) == c = " "

\* s.replace(/\s+$/g, '')
RECURSIVE StripEnd(_)
StripEnd(s) ==
  IF s = <<>> THEN <<>>
  ELSE IF IsSpace(s[Len(s)]) THEN StripEnd(SubSeq(s, 1, Len(s) - 1))
  ELSE s

RECURSIVE StripStart(_)
StripStart(s) ==
  IF s = <<>> THEN <<>>
  ELSE IF IsSpace(Head(s)) THEN StripStart(Tail(s))
  ELSE s

\* String.prototype.trim
Trim(s) == StripEnd(StripStart(s))

\* s.split(/\s+/): the pieces between maximal whitespace runs; "" gives [""]
RECURSIVE SplitWs(_, _, _, _)
SplitWs(s, cur, acc, inRun) ==
  IF s = <<>> THEN Append(acc, cur)
  ELSE IF IsSpace(Head(s))
       THEN IF inRun THEN SplitWs(Tail(s), cur, acc, TRUE)
            ELSE SplitWs(Tail(s), <<>>, Append(acc, cur), TRUE)
       ELSE SplitWs(Tail(s), Append(cur, Head(s)), acc, FALSE)

Words(name) == SplitWs(Trim(name), <<>>, <<>>, FALSE)

\* words.slice(from-1, to).join(' ')
RECURSIVE JoinWords(_, _, _)
JoinWords(words, from, to) ==
  IF from > to THEN <<>>
  ELSE IF from = to THEN words[from]
  ELSE words[from] \o <<" ">> \o JoinWords(words, from + 1, to)

----------------------------------------------------------------------------
(* truncateToMaxChars, src/index.js:173-181 *)

\* the same function without the early return for a text that fits
truncateNoFitCheck(text, maxChars) ==
  LET max == Max(0, maxChars) IN
  IF max = 0 THEN <<>>
  ELSE IF text = <<>> THEN <<>>
  ELSE StripEnd(SubSeq(text, 1, Min(max, Len(text)))) \o <<".">>

truncateToMaxChars(text, maxChars) ==
  LET max == Max(0, maxChars) IN
  IF max = 0 THEN <<>>
  ELSE IF text = <<>> THEN <<>>
  ELSE IF Len(text) <= max THEN text
  ELSE StripEnd(SubSeq(text, 1, max)) \o <<".">>

----------------------------------------------------------------------------
(* Caps: parseParams toNum, src/index.js:434-445, and the normalisation in *)
(* splitNameIntoTwoLines, src/index.js:186-187                             *)

\* A parameter as Number() sees it: absent, a text that is not a number,
\* an infinity, or a finite number (an integer; for a dpi the numerator over
\* DpiDen).
Undefined == [kind |-> "undefined", v |-> 0]
NaN == [kind |-> "nan", v |-> 0]
Infinity == [kind |-> "inf", v |-> 0]
Num(n) == [kind |-> "num", v |-> n]

RawCaps == {Undefined, NaN, Infinity} \cup {Num(n) : n \in (-MaxNegCap)..MaxRawCap}

\* Number.isFinite(Number(v)) ? Number(v) : fallback
toNum(raw, fallback) == IF raw.kind = "num" THEN raw.v ELSE fallback

\* source.maxLine1 !== undefined ? toNum(source.maxLine1, DEFAULT) : DEFAULT
\* (the aliases max_line1 and maxcharsline1 are read the same way)
ParseCap(raw, dflt) ==
  IF raw.kind = "undefined" THEN dflt ELSE toNum(raw, dflt)

\* Math.max(1, Number(c) || dflt) for a finite c: 0 is falsy
EffectiveCap(c, dflt) == Max(1, IF c # 0 THEN c ELSE dflt)

----------------------------------------------------------------------------
(* splitNameIntoTwoLines, src/index.js:183-230 *)

\* candidates: one {l1, l2, diff} per split point i = 1 .. words.length-1
Candidates(words) ==
  [i \in 1..(Len(words) - 1) |->
     LET l1 == JoinWords(words, 1, i)
         l2 == JoinWords(words, i + 1, Len(words))
     IN [l1 |-> l1, l2 |-> l2, diff |-> Abs(Len(l1) - Len(l2))]]

FitsCaps(c, max1, max2) == Len(c.l1) <= max1 /\ Len(c.l2) <= max2

\* candidates.filter(c => c.l1.length <= max1 && c.l2.length <= max2)
ValidCandidates(words, max1, max2) ==
  LET Fits(c) == FitsCaps(c, max1, max2)
  IN SelectSeq(Candidates(words), Fits)

\* insertion of c behind every element whose diff is <= c.diff
RECURSIVE InsertByDiff(_, _)
InsertByDiff(c, sorted) ==
  IF sorted = <<>> THEN <<c>>
  ELSE IF Head(sorted).diff <= c.diff
       THEN <<Head(sorted)>> \o InsertByDiff(c, Tail(sorted))
       ELSE <<c>> \o sorted

RECURSIVE InsertByDiffDesc(_, _)
InsertByDiffDesc(c, sorted) ==
  IF sorted = <<>> THEN <<c>>
  ELSE IF Head(sorted).diff >= c.diff
       THEN <<Head(sorted)>> \o InsertByDiffDesc(c, Tail(sorted))
       ELSE <<c>> \o sorted

\* the comparator reversed: (a, b) => b.diff - a.diff
RECURSIVE SortByDiffDesc(_)
SortByDiffDesc(seq) ==
  IF seq = <<>> THEN <<>>
  ELSE InsertByDiffDesc(seq[Len(seq)], SortByDiffDesc(SubSeq(seq, 1, Len(seq) - 1)))

\* valid.sort((a, b) => a.diff - b.diff); Array.prototype.sort is stable
RECURSIVE SortByDiff(_)
SortByDiff(seq) ==
  IF seq = <<>> THEN <<>>
  ELSE InsertByDiff(seq[Len(seq)], SortByDiff(SubSeq(seq, 1, Len(seq) - 1)))

\* the fallback loop: each word goes to line1 if line1 + ' ' + w fits max1,
\* otherwise to line2
RECURSIVE GreedyFill(_, _, _, _)
GreedyFill(words, max1, line1, line2) ==
  IF words = <<>> THEN [line1 |-> line1, line2 |-> line2]
  ELSE LET w == Head(words)
           try1 == IF line1 # <<>> THEN line1 \o <<" ">> \o w ELSE w
       IN IF Len(try1) <= max1
          THEN GreedyFill(Tail(words), max1, try1, line2)
          ELSE GreedyFill(Tail(words), max1, line1,
                          IF line2 # <<>> THEN line2 \o <<" ">> \o w ELSE w)

\* which return statement of splitNameIntoTwoLines is taken
SplitPath(name, maxLine1, maxLine2) ==
  LET max1 == EffectiveCap(maxLine1, DEFAULT_MAX_CHARS_LINE1)
      max2 == EffectiveCap(maxLine2, DEFAULT_MAX_CHARS_LINE2)
      words == Words(name)
  IN IF name = <<>> THEN "empty"
     ELSE IF Len(words) = 1 THEN "single"
     ELSE IF Len(ValidCandidates(words, max1, max2)) > 0 THEN "balanced"
     ELSE "fallback"

NoFill == [line1 |-> <<>>, line2 |-> <<>>]

\* the locals line1 and line2 when the fallback loop ends (before line 224)
SplitFill(name, maxLine1, maxLine2) ==
  IF SplitPath(name, maxLine1, maxLine2) = "fallback"
  THEN GreedyFill(Words(name),
                  EffectiveCap(maxLine1, DEFAULT_MAX_CHARS_LINE1), <<>>, <<>>)
  ELSE NoFill

splitNameIntoTwoLines(name, maxLine1, maxLine2) ==
  LET max1 == EffectiveCap(maxLine1, DEFAULT_MAX_CHARS_LINE1)
      max2 == EffectiveCap(maxLine2, DEFAULT_MAX_CHARS_LINE2)
      words == Words(name)
      valid == ValidCandidates(words, max1, max2)
      best == SortByDiff(valid)[1]
      fill == GreedyFill(words, max1, <<>>, <<>>)
  IN IF name = <<>> THEN [line1 |-> <<>>, line2 |-> <<>>]
     ELSE IF Len(words) = 1
          THEN [line1 |-> truncateToMaxChars(words[1], max1), line2 |-> <<>>]
     ELSE IF Len(valid) > 0
          THEN [line1 |-> best.l1, line2 |-> best.l2]
     ELSE [line1 |-> truncateToMaxChars(
                       IF fill.line1 # <<>> THEN fill.line1 ELSE words[1], max1),
           line2 |-> truncateToMaxChars(fill.line2, max2)]

----------------------------------------------------------------------------
(* The planner called with caps that parseParams produced *)

SplitCalls == [name : Str(MaxNameLen), rawMax1 : RawCaps, rawMax2 : RawCaps]

NoSplitCall == [name |-> <<>>, rawMax1 |-> Undefined, rawMax2 |-> Undefined]
NoSplitLog == [path |-> "none"]
NoPlan == [line1 |-> <<>>, line2 |-> <<>>]

IdleSplit ==
  /\ splitArgs = NoSplitCall
  /\ splitLog = NoSplitLog
  /\ plan = NoPlan

\* what the function logs and leaves behind: the arguments as parseParams
\* delivers them, the effective caps and the return taken (the three
\* console.log lines of the function), and the two locals as the fallback
\* loop leaves them
SplitLogOf(name, c1, c2) ==
  [path |-> SplitPath(name, c1, c2),
   maxLine1 |-> c1, maxLine2 |-> c2,
   max1 |-> EffectiveCap(c1, DEFAULT_MAX_CHARS_LINE1),
   max2 |-> EffectiveCap(c2, DEFAULT_MAX_CHARS_LINE2),
   fill |-> SplitFill(name, c1, c2)]

SplitName ==
  /\ pc = "split"
  /\ LET c1 == ParseCap(splitArgs.rawMax1, DEFAULT_MAX_CHARS_LINE1)
         c2 == ParseCap(splitArgs.rawMax2, DEFAULT_MAX_CHARS_LINE2)
     IN /\ splitLog' = SplitLogOf(splitArgs.name, c1, c2)
        /\ plan' = splitNameIntoTwoLines(splitArgs.name, c1, c2)
  /\ pc' = "done"
  /\ UNCHANGED <<splitArgs, varsTrunc, varsRender, varsHandle>>

----------------------------------------------------------------------------
(* truncateToMaxChars applied repeatedly to its own result *)

TruncCalls == [text : Str(MaxTextLen), maxChars : 0..MaxTruncCap]

NoTruncCall == [text |-> <<>>, maxChars |-> 0]

IdleTrunc ==
  /\ truncArgs = NoTruncCall
  /\ truncResults = <<>>

\* the first call is on the text, each further call on the previous result
Truncate ==
  /\ pc = "trunc"
  /\ Len(truncResults) < MaxTruncCalls
  /\ LET text == IF truncResults = <<>> THEN truncArgs.text
                 ELSE truncResults[Len(truncResults)]
     IN truncResults' =
          Append(truncResults, truncateToMaxChars(text, truncArgs.maxChars))
  /\ pc' = IF Len(truncResults) + 1 < MaxTruncCalls THEN "trunc" ELSE "done"
  /\ UNCHANGED <<truncArgs, varsSplit, varsRender, varsHandle>>

----------------------------------------------------------------------------
(* Numbers of the layout *)

\* Math.round(n / q) for q > 0: the nearest integer, a tie going up
RoundDiv(n, q) == (2 * n + q) \div (2 * q)

\* Math.floor(n / q) for q > 0
FloorDiv(n, q) == n \div q

\* clamp(value, min, max), src/index.js:164-166
clamp(value, min, max) == Max(min, Min(max, value))

\* Math.round(mmToPx(mm, dpi)) with dpi = d / DpiDen:
\* round((mm / 25.4) * dpi) = round(10 * mm * d / (254 * DpiDen))
mmToPxFloor(mm, d) == FloorDiv(10 * mm * d, 254 * DpiDen)

mmToPx(mm, d) == RoundDiv(10 * mm * d, 254 * DpiDen)

\* parseParams, src/index.js:414-416: the dpi handed to renderBadgePng
ParseDpi(raw) ==
  LET dpi == IF raw.kind = "num" THEN raw.v ELSE DEFAULT_DPI * DpiDen
  IN Num(clamp(dpi, MIN_DPI * DpiDen, MAX_DPI * DpiDen))

\* renderBadgePng, src/index.js:247: clamp(Number(dpi) || DEFAULT_DPI, ..)
ClampDpi(dpi) ==
  IF dpi.kind = "inf" THEN MAX_DPI * DpiDen
  ELSE IF dpi.kind = "num" /\ dpi.v # 0
       THEN clamp(dpi.v, MIN_DPI * DpiDen, MAX_DPI * DpiDen)
       ELSE DEFAULT_DPI * DpiDen

allowed == {0, 90, 180, 270}

\* parseParams, src/index.js:421-428: rotation, else rotate, else 0
ParseRotation(rotation, rotate) ==
  LET Snap(r) == IF r.kind = "num" /\ r.v \in allowed THEN r.v ELSE 0
  IN IF rotation.kind # "undefined" THEN Num(Snap(rotation))
     ELSE IF rotate.kind # "undefined" THEN Num(Snap(rotate))
     ELSE Num(0)

\* renderBadgePng, src/index.js:253: allowed.includes(rotation) ? rotation : 0
\* (a text such as '90' is not included)
NormalizeRotation(rotation) ==
  IF rotation.kind = "num" /\ rotation.v \in allowed THEN rotation.v ELSE 0

\* the dimensions swapped for 90 only
FinalSizeOnly90(rot, contentWidth, contentHeight) ==
  [width |-> IF rot = 90 THEN contentHeight ELSE contentWidth,
   height |-> IF rot = 90 THEN contentWidth ELSE contentHeight]

\* renderBadgePng, src/index.js:370-371
FinalSize(rot, contentWidth, contentHeight) ==
  [width |-> IF rot = 90 \/ rot = 270 THEN contentHeight ELSE contentWidth,
   height |-> IF rot = 90 \/ rot = 270 THEN contentWidth ELSE contentHeight]

\* the QR left where the text flow put it
ClampQrYNone(qrY, maxQrY) == qrY

\* renderBadgePng, src/index.js:347: if (qrY > maxQrY) qrY = maxQrY
ClampQrY(qrY, maxQrY) == IF qrY > maxQrY THEN maxQrY ELSE qrY

\* A text argument: absent, or a string
NoText == [kind |-> "undefined", v |-> <<>>]
Text(s) == [kind |-> "str", v |-> s]

\* if (qrText)
Truthy(t) == t.kind = "str" /\ t.v # <<>>

----------------------------------------------------------------------------
(* renderBadgePng, src/index.js:246-397: sizes and positions of a call     *)
(* that ran to its end.  Vertical positions that the code keeps as         *)
(* fractions are in units of 1/VIRTUAL_H pixel (fields ending in V), since *)
(* scaleY = contentHeight / VIRTUAL_H.                                     *)

renderBadgePng(a) ==
  LET clampedDpi == ClampDpi(a.dpi)
      canvasWidthPx == mmToPx(a.mmWidth, clampedDpi)
      canvasHeightPx == mmToPx(a.mmHeight, clampedDpi)
      rot == NormalizeRotation(a.rotation)
      contentWidth == canvasWidthPx
      contentHeight == canvasHeightPx
      innerWidth == Max(0, contentWidth - sidePaddingPx * 2)
      lineGapV == layoutBase.lineGap * contentHeight
      afterTextGapV ==
        IF layoutBase.afterTextGap * contentHeight < 40 * VIRTUAL_H
        THEN 40 * VIRTUAL_H
        ELSE layoutBase.afterTextGap * contentHeight
      \* uniformScale = Math.min(scaleX, scaleY) = usNum / usDen
      xIsMin == contentWidth * VIRTUAL_H <= contentHeight * VIRTUAL_W
      usNum == IF xIsMin THEN contentWidth ELSE contentHeight
      usDen == IF xIsMin THEN VIRTUAL_W ELSE VIRTUAL_H
      qrRenderSize == RoundDiv((layoutBase.qrSize - 40) * usNum, usDen)
      qrRenderClamped == Min(qrRenderSize, innerWidth)
      p == splitNameIntoTwoLines(a.name, a.maxCharsLine1, a.maxCharsLine2)
      titleFontSize == RoundDiv(layoutBase.titleFont * usNum, usDen)
      secondFontSize == RoundDiv(layoutBase.secondFont * usNum, usDen)
      hasCategory == a.category.kind = "str" /\ Trim(a.category.v) # <<>>
      categoryFontSize ==
        IF hasCategory THEN Max(6, RoundDiv(secondFontSize, 4)) ELSE 0
      categoryGap == IF hasCategory THEN RoundDiv(18 * usNum, usDen) ELSE 0
      y0V == topPaddingPx * VIRTUAL_H
      y1V == IF p.line2 # <<>>
             THEN y0V + titleFontSize * VIRTUAL_H + lineGapV
             ELSE y0V + titleFontSize * VIRTUAL_H
                    + (lineGapV + 30 * contentHeight)
      y2V == y1V + afterTextGapV
      qrX == RoundDiv(sidePaddingPx * 2 + (innerWidth - qrRenderClamped), 2)
      reserveBelowQr == IF hasCategory THEN categoryGap + categoryFontSize ELSE 0
      maxQrY == Max(topPaddingPx,
                    contentHeight - bottomPaddingPx - qrRenderClamped
                      - reserveBelowQr)
      qrY == ClampQrY(RoundDiv(y2V, VIRTUAL_H), maxQrY)
      final == FinalSize(rot, contentWidth, contentHeight)
      qrDrawn == Truthy(a.qrText)
  IN [called |-> TRUE, stage |-> "final", clampedDpi |-> clampedDpi,
      contentWidth |-> contentWidth, contentHeight |-> contentHeight,
      rot |-> rot, finalWidth |-> final.width, finalHeight |-> final.height,
      line1 |-> p.line1, line2 |-> p.line2,
      titleFontSize |-> titleFontSize, secondFontSize |-> secondFontSize,
      line1YV |-> y0V,
      line2YV |-> IF p.line2 # <<>> THEN y1V ELSE 0,
      qrDrawn |-> qrDrawn,
      qrSize |-> IF qrDrawn THEN qrRenderClamped ELSE 0,
      qrX |-> IF qrDrawn THEN qrX ELSE 0,
      qrY |-> IF qrDrawn THEN qrY ELSE 0,
      hasCategory |-> hasCategory,
      categoryFontSize |-> categoryFontSize, categoryGap |-> categoryGap,
      categoryDrawn |-> qrDrawn /\ hasCategory,
      catY |-> IF qrDrawn /\ hasCategory
               THEN qrY + qrRenderClamped + categoryGap ELSE 0]

----------------------------------------------------------------------------
(* Calls in flight.  renderBadgePng and handleBadgeRequest are async: a    *)
(* call runs up to its next await, and the event loop may run any other    *)
(* call in between.  at[c] is the await a call is suspended at, the        *)
(* innermost one; "renderBadgePng" is the handler's await of line 515 once *)
(* renderBadgePng has settled.                                             *)

\* the calls that can be in flight together
Calls == {1, 2}

Upd(f, c, v) == [f EXCEPT ![c] = v]

\* where drawing throws, if it does
Throws == {"none", "createCanvas", "toBuffer", "loadImage", "encode"}

\* renderBadgePng, src/index.js:246-324, suspended at the await of line 328
\* or 350: the name is on the content canvas, the QR and the category are
\* not, and there is no final canvas
DrawnText(a) ==
  [renderBadgePng(a) EXCEPT !.stage = "text",
                            !.finalWidth = 0, !.finalHeight = 0,
                            !.qrDrawn = FALSE, !.qrSize = 0,
                            !.qrX = 0, !.qrY = 0,
                            !.categoryDrawn = FALSE, !.catY = 0]

RenderNames == {<<>>, <<"a">>, <<"a", " ", "b">>}
QrTexts == {NoText, Text(<<"a">>)}
Categories == {NoText, Text(<<" ">>), Text(<<"b">>)}

DirectDpis ==
  {Undefined, NaN, Infinity, Num(0), Num(-DpiDen)}
    \cup {Num(d * DpiDen) : d \in {MIN_DPI - 1, MIN_DPI, DEFAULT_DPI,
                                   MAX_DPI, MAX_DPI + 1}}

\* '90' is the text, every other value a number
DirectRotations ==
  {Undefined, NaN, [kind |-> "str", v |-> 90]}
    \cup {Num(r) : r \in {-90, 0, 45, 90, 180, 270, 360, 450}}

RawDpis ==
  {Undefined, NaN, Infinity, Num(0), Num(-DpiDen)}
    \cup {Num(d) : d \in ((MIN_DPI - DpiMargin) * DpiDen)
                           ..((MAX_DPI + DpiMargin) * DpiDen)}

RawRotations == {Undefined, Num(45), Num(90)}
RawRotates == {Undefined, Num(270)}

DirectInputs ==
  [via : {"direct"}, name : RenderNames, qrText : QrTexts,
   category : Categories, dpi : DirectDpis, rotation : DirectRotations,
   rotate : {Undefined}]

\* every dpi with a QR, and every rotation at the default and the least dpi
ParsedInputs ==
  [via : {"parsed"}, name : RenderNames \ {<<>>}, qrText : {Text(<<"a">>)},
   category : {NoText, Text(<<"b">>)}, dpi : RawDpis,
   rotation : {Undefined}, rotate : {Undefined}]
    \cup
  [via : {"parsed"}, name : RenderNames \ {<<>>}, qrText : QrTexts,
   category : {NoText, Text(<<"b">>)},
   dpi : {Undefined, Num(MIN_DPI * DpiDen)},
   rotation : RawRotations, rotate : RawRotates]

\* the call that is in flight next to the one under study
ConcurrentInput ==
  [via |-> "direct", name |-> <<"a">>, qrText |-> Text(<<"a">>),
   category |-> NoText, dpi |-> Undefined, rotation |-> Undefined,
   rotate |-> Undefined]

NoRenderInput ==
  [via |-> "none", name |-> <<>>, qrText |-> NoText, category |-> NoText,
   dpi |-> Undefined, rotation |-> Undefined, rotate |-> Undefined]

\* renderBadgePng called by handleBadgeRequest, src/index.js:515
FromRequest == [NoRenderInput EXCEPT !.via = "request"]

NoArgs ==
  [name |-> <<>>, qrText |-> NoText, category |-> NoText,
   dpi |-> Undefined, mmWidth |-> MM_HEIGHT, mmHeight |-> MM_WIDTH,
   rotation |-> Undefined,
   maxCharsLine1 |-> DEFAULT_MAX_CHARS_LINE1,
   maxCharsLine2 |-> DEFAULT_MAX_CHARS_LINE2]

NoLayout == [called |-> FALSE]

NoResponse == [status |-> 0, body |-> "none", image |-> FALSE]

IdleRender ==
  /\ at = [c \in Calls |-> "idle"]
  /\ renderInput = [c \in Calls |-> NoRenderInput]
  /\ renderArgs = [c \in Calls |-> NoArgs]
  /\ layout = [c \in Calls |-> NoLayout]
  /\ renderFails = [c \in Calls |-> "none"]
  /\ renderOutcome = [c \in Calls |-> "none"]

\* what no step of a call changes: the inputs of every call
Inputs ==
  <<pc, splitArgs, truncArgs, truncResults, renderInput, request, storeReply,
    renderFails>>

\* renderBadgePng settles: its promise is fulfilled ("ok") or rejected
\* ("throws").  A handler that awaits it, src/index.js:515, resumes in a
\* later step; a call made by no handler is over
Settled(c, outcome) ==
  /\ renderOutcome' = Upd(renderOutcome, c, outcome)
  /\ at' = Upd(at, c, IF renderInput[c].via = "request"
                      THEN "renderBadgePng" ELSE "done")

Threw(c) == Settled(c, "throws")

\* renderBadgePng from its call to its first await, src/index.js:246-328
\* with a QR and 246-394 without: createCanvas (258) throws before anything
\* is drawn; otherwise the name is planned (287, which logs), drawn, and the
\* call waits for the QR buffer or, without QR, composes the final canvas
\* and waits for the PNG
RenderStart(c, a) ==
  /\ renderArgs' = Upd(renderArgs, c, a)
  /\ IF renderFails[c] = "createCanvas"
     THEN /\ Threw(c)
          /\ UNCHANGED <<layout, splitLog, plan>>
     ELSE /\ splitLog' = SplitLogOf(a.name, a.maxCharsLine1, a.maxCharsLine2)
          /\ plan' = splitNameIntoTwoLines(a.name, a.maxCharsLine1,
                                           a.maxCharsLine2)
          /\ IF Truthy(a.qrText)
             THEN /\ layout' = Upd(layout, c, DrawnText(a))
                  /\ at' = Upd(at, c, "toBuffer")
             ELSE /\ layout' = Upd(layout, c, renderBadgePng(a))
                  /\ at' = Upd(at, c, "encode")
          /\ UNCHANGED renderOutcome
  /\ UNCHANGED response

\* renderBadgePng with dpi and rotation as the caller wrote them
RenderDirect ==
  \E c \in Calls :
    /\ at[c] = "call"
    /\ renderInput[c].via = "direct"
    /\ RenderStart(c, [name |-> renderInput[c].name,
                       qrText |-> renderInput[c].qrText,
                       category |-> renderInput[c].category,
                       dpi |-> renderInput[c].dpi,
                       mmWidth |-> MM_HEIGHT, mmHeight |-> MM_WIDTH,
                       rotation |-> renderInput[c].rotation,
                       maxCharsLine1 |-> DEFAULT_MAX_CHARS_LINE1,
                       maxCharsLine2 |-> DEFAULT_MAX_CHARS_LINE2])
    /\ UNCHANGED Inputs

\* renderBadgePng with dpi, size and rotation as parseParams delivers them
RenderParsed ==
  \E c \in Calls :
    /\ at[c] = "call"
    /\ renderInput[c].via = "parsed"
    /\ RenderStart(c, [name |-> renderInput[c].name,
                       qrText |-> renderInput[c].qrText,
                       category |-> renderInput[c].category,
                       dpi |-> ParseDpi(renderInput[c].dpi),
                       mmWidth |-> MM_HEIGHT, mmHeight |-> MM_WIDTH,
                       rotation |-> ParseRotation(renderInput[c].rotation,
                                                  renderInput[c].rotate),
                       maxCharsLine1 |-> DEFAULT_MAX_CHARS_LINE1,
                       maxCharsLine2 |-> DEFAULT_MAX_CHARS_LINE2])
    /\ UNCHANGED Inputs

\* await QRCode.toBuffer, src/index.js:328-350: the buffer arrives, the QR
\* position is computed and the call waits for the image; or toBuffer threw
QrEncoded ==
  \E c \in Calls :
    /\ at[c] = "toBuffer"
    /\ IF renderFails[c] = "toBuffer"
       THEN Threw(c)
       ELSE /\ at' = Upd(at, c, "loadImage")
            /\ UNCHANGED renderOutcome
    /\ UNCHANGED <<renderArgs, layout, response, splitLog, plan>>
    /\ UNCHANGED Inputs

\* await loadImage, src/index.js:350-394: the QR and the category are
\* drawn, the final canvas is composed and the call waits for the PNG; or
\* loadImage threw
QrImageLoaded ==
  \E c \in Calls :
    /\ at[c] = "loadImage"
    /\ IF renderFails[c] = "loadImage"
       THEN /\ Threw(c)
            /\ UNCHANGED layout
       ELSE /\ layout' = Upd(layout, c, renderBadgePng(renderArgs[c]))
            /\ at' = Upd(at, c, "encode")
            /\ UNCHANGED renderOutcome
    /\ UNCHANGED <<renderArgs, response, splitLog, plan>>
    /\ UNCHANGED Inputs

----------------------------------------------------------------------------
(* parseParams, src/index.js:399-447 *)

\* a parameter that is present but not a string (a JSON number, say)
NotAString == [kind |-> "other", v |-> <<>>]

\* format as the request has it: absent, or a text
Formats == {"undefined", "png", "base64", "BASE64", "Base64", "gif"}

\* source.format.toLowerCase(), on the texts of Formats
ToLowerCase(format) ==
  IF format \in {"BASE64", "Base64"} THEN "base64" ELSE format

\* src/index.js:430-431
OutputFormat(format) ==
  LET lower == IF format # "undefined" THEN ToLowerCase(format) ELSE "png"
  IN IF lower \in {"png", "base64"} THEN lower ELSE "png"

parseParams(req) ==
  [qr |-> IF req.qr.kind = "str" THEN Text(Trim(req.qr.v)) ELSE NoText,
   name |-> IF req.name.kind = "str" THEN Trim(req.name.v) ELSE <<>>,
   dpi |-> ParseDpi(req.dpi),
   mmWidth |-> MM_HEIGHT, mmHeight |-> MM_WIDTH,
   rotation |-> ParseRotation(req.rotation, req.rotate),
   outputFormat |-> OutputFormat(req.format),
   maxCharsLine1 |-> ParseCap(req.maxLine1, DEFAULT_MAX_CHARS_LINE1),
   maxCharsLine2 |-> ParseCap(req.maxLine2, DEFAULT_MAX_CHARS_LINE2)]

----------------------------------------------------------------------------
(* fetchParticipantById, src/index.js:449-466, and handleBadgeRequest,     *)
(* src/index.js:482-540                                                    *)

\* a column value that is not a string (a number, a boolean); v is the text
\* String() makes of it
NotText(s) == [kind |-> "other", v |-> s]

\* what the lookup returns: null (no client, a query error, an exception,
\* no row) or a row with name and category
NoRow(why) == [found |-> FALSE, why |-> why, name |-> NoText, category |-> NoText]
Row(n, c) == [found |-> TRUE, why |-> "row", name |-> n, category |-> c]
NotAsked == NoRow("not asked")

\* categories: absent, a text, the number 5
StoreReplies ==
  {NoRow(w) : w \in {"no client", "query error", "exception", "no row"}}
    \cup {Row(n, c) : n \in {NoText, NotAString, Text(<<" ">>),
                             Text(<<" ", "b">>)},
                      c \in {NoText, Text(<<"b">>), NotText(<<"5">>)}}

\* typeof participant.name === 'string' && participant.name.trim().length > 0
HasName(participant) ==
  participant.found /\ participant.name.kind = "str"
    /\ Trim(participant.name.v) # <<>>

ResolvedName(name, asked, participant) ==
  IF asked /\ HasName(participant) THEN Trim(participant.name.v) ELSE name

\* if (participant.category != null) resolvedCategory = String(..)
ResolvedCategory(asked, participant) ==
  IF asked /\ participant.found /\ participant.category.kind # "undefined"
  THEN Text(participant.category.v) ELSE NoText

\* the QR kept although no participant was found
ResolvedQrKept(qr, asked, participant) ==
  IF asked THEN Text(Trim(qr.v)) ELSE qr

\* resolvedQr: the uuid when a participant was found, undefined when not
ResolvedQr(qr, asked, participant) ==
  IF asked
  THEN IF participant.found THEN Text(Trim(qr.v)) ELSE NoText
  ELSE qr

\* the name never checked
NameMissingNever(resolvedName) == FALSE

\* if (!resolvedName)
NameMissing(resolvedName) == resolvedName = <<>>

NameParams ==
  {NoText, NotAString, Text(<<>>), Text(<<" ">>), Text(<<"a">>),
   Text(<<" ", "a", " ", "b">>)}
QrParams ==
  {NoText, NotAString, Text(<<>>), Text(<<" ">>), Text(<<"a">>),
   Text(<<" ", "a">>)}

Requests ==
  [name : NameParams, qr : QrParams,
   dpi : {Undefined, Num(MIN_DPI * DpiDen)},
   rotation : {Undefined}, rotate : {Undefined},
   format : Formats, maxLine1 : {Undefined}, maxLine2 : {Undefined}]

NoRequest ==
  [name |-> NoText, qr |-> NoText, dpi |-> Undefined, rotation |-> Undefined,
   rotate |-> Undefined, format |-> "undefined", maxLine1 |-> Undefined,
   maxLine2 |-> Undefined]

\* the request that is in flight next to the one under study, and the row
\* the store has for it
ConcurrentRequest ==
  [NoRequest EXCEPT !.name = Text(<<"a">>), !.qr = Text(<<"a">>)]
ConcurrentRow == Row(Text(<<"b">>), Text(<<"b">>))

\* the client is the process's, src/index.js:450: without it every lookup
\* of the process returns null
ConcurrentReply(s) ==
  IF s = NoRow("no client") THEN NoRow("no client") ELSE ConcurrentRow

IdleHandle ==
  /\ request = [c \in Calls |-> NoRequest]
  /\ storeReply = [c \in Calls |-> NotAsked]
  /\ response = [c \in Calls |-> NoResponse]

\* handleBadgeRequest behind the lookup, src/index.js:494-515: the resolved
\* values, the 400 for a missing name, and the call of renderBadgePng up to
\* its first await
Resolve(c, p, asked, participant) ==
  LET resolvedName == ResolvedName(p.name, asked, participant)
      resolvedQr == ResolvedQr(p.qr, asked, participant)
      resolvedCategory == ResolvedCategory(asked, participant)
  IN IF NameMissing(resolvedName)
     THEN /\ response' = Upd(response, c,
                             [status |-> 400, body |-> "missing name",
                              image |-> FALSE])
          /\ at' = Upd(at, c, "done")
          /\ UNCHANGED <<renderArgs, layout, renderOutcome, splitLog, plan>>
     ELSE RenderStart(c, [name |-> resolvedName, qrText |-> resolvedQr,
                          category |-> resolvedCategory, dpi |-> p.dpi,
                          mmWidth |-> p.mmWidth, mmHeight |-> p.mmHeight,
                          rotation |-> p.rotation,
                          maxCharsLine1 |-> p.maxCharsLine1,
                          maxCharsLine2 |-> p.maxCharsLine2])

\* A request from parseParams to its first await, src/index.js:482-493 with
\* a qr (the lookup is awaited) and 482-515 without
handleBadgeRequest ==
  \E c \in Calls :
    /\ at[c] = "request"
    /\ LET p == parseParams(request[c])
       IN IF Truthy(p.qr)
          THEN /\ at' = Upd(at, c, "lookup")
               /\ UNCHANGED <<renderArgs, layout, renderOutcome, response,
                              splitLog, plan>>
          ELSE Resolve(c, p, FALSE, NotAsked)
    /\ UNCHANGED Inputs

\* await fetchParticipantByQrUuid, src/index.js:493-515: storeReply is what
\* the store answers
ParticipantFetched ==
  \E c \in Calls :
    /\ at[c] = "lookup"
    /\ Resolve(c, parseParams(request[c]), TRUE, storeReply[c])
    /\ UNCHANGED Inputs

\* await finalCanvas.encode, src/index.js:394: renderBadgePng returns the
\* PNG, or encode threw
PngEncoded ==
  \E c \in Calls :
    /\ at[c] = "encode"
    /\ IF renderFails[c] = "encode" THEN Threw(c) ELSE Settled(c, "ok")
    /\ UNCHANGED <<renderArgs, layout, response, splitLog, plan>>
    /\ UNCHANGED Inputs

\* await renderBadgePng, src/index.js:515-539: the handler resumes with the
\* PNG and sends it as outputFormat says (517-535), or resumes in its catch
\* and answers 500 (536-539)
Responded ==
  \E c \in Calls :
    /\ at[c] = "renderBadgePng"
    /\ response' =
         Upd(response, c,
             IF renderOutcome[c] = "ok"
             THEN [status |-> 200,
                   body |-> parseParams(request[c]).outputFormat,
                   image |-> TRUE]
             ELSE [status |-> 500, body |-> "internal error",
                   image |-> FALSE])
    /\ at' = Upd(at, c, "done")
    /\ UNCHANGED <<renderArgs, layout, renderOutcome, splitLog, plan>>
    /\ UNCHANGED Inputs

----------------------------------------------------------------------------
(* Specifications: each draws the inputs of one part of the program in   *)
(* its initial states; Spec draws the inputs of any of them.  The calls of *)
(* renderBadgePng and the requests are two in flight: call 1 ranges over   *)
(* the inputs, call 2 is one fixed call that runs to its end in any        *)
(* interleaving with call 1.                                               *)

InitSplit ==
  /\ pc = "split"
  /\ splitArgs \in SplitCalls
  /\ splitLog = NoSplitLog
  /\ plan = NoPlan
  /\ IdleTrunc /\ IdleRender /\ IdleHandle

InitTrunc ==
  /\ pc = "trunc"
  /\ truncArgs \in TruncCalls
  /\ truncResults = <<>>
  /\ IdleSplit /\ IdleRender /\ IdleHandle

\* a throw is drawn for the direct calls
InitRender ==
  /\ pc = "calls"
  /\ at = [c \in Calls |-> "call"]
  /\ \E i \in DirectInputs \cup ParsedInputs :
       renderInput = [c \in Calls |-> IF c = 1 THEN i ELSE ConcurrentInput]
  /\ \E t \in Throws :
       /\ t = "none" \/ renderInput[1].via = "direct"
       /\ renderFails = [c \in Calls |-> IF c = 1 THEN t ELSE "none"]
  /\ renderArgs = [c \in Calls |-> NoArgs]
  /\ layout = [c \in Calls |-> NoLayout]
  /\ renderOutcome = [c \in Calls |-> "none"]
  /\ IdleSplit /\ IdleTrunc /\ IdleHandle

InitHandle ==
  /\ pc = "calls"
  /\ at = [c \in Calls |-> "request"]
  /\ \E r \in Requests :
       request = [c \in Calls |-> IF c = 1 THEN r ELSE ConcurrentRequest]
  /\ \E s \in StoreReplies :
       storeReply = [c \in Calls |-> IF c = 1 THEN s ELSE ConcurrentReply(s)]
  /\ \E t \in Throws :
       renderFails = [c \in Calls |-> IF c = 1 THEN t ELSE "none"]
  /\ renderOutcome = [c \in Calls |-> "none"]
  /\ response = [c \in Calls |-> NoResponse]
  /\ renderInput = [c \in Calls |-> FromRequest]
  /\ renderArgs = [c \in Calls |-> NoArgs]
  /\ layout = [c \in Calls |-> NoLayout]
  /\ IdleSplit /\ IdleTrunc

NextSplit == SplitName
SpecSplit == InitSplit /\ [][NextSplit]_vars

NextTrunc == Truncate
SpecTrunc == InitTrunc /\ [][NextTrunc]_vars

NextRender ==
  RenderDirect \/ RenderParsed \/ QrEncoded \/ QrImageLoaded \/ PngEncoded
SpecRender == InitRender /\ [][NextRender]_vars

NextHandle ==
  handleBadgeRequest \/ ParticipantFetched \/ QrEncoded \/ QrImageLoaded
    \/ PngEncoded \/ Responded
SpecHandle == InitHandle /\ [][NextHandle]_vars

Init == InitSplit \/ InitTrunc \/ InitRender \/ InitHandle
Next == SplitName \/ Truncate \/ RenderDirect \/ RenderParsed
          \/ handleBadgeRequest \/ ParticipantFetched \/ QrEncoded
          \/ QrImageLoaded \/ PngEncoded \/ Responded
Spec == Init /\ [][Next]_vars

----------------------------------------------------------------------------
(* Properties of the planner (SpecSplit) *)

SplitWords == Words(splitArgs.name)
SplitPrefix(i) == JoinWords(SplitWords, 1, i)
SplitSuffix(i) == JoinWords(SplitWords, i + 1, Len(SplitWords))
SplitPoints == 1..(Len(SplitWords) - 1)
SplitFits(i) ==
  /\ Len(SplitPrefix(i)) <= splitLog.maxLine1
  /\ Len(SplitSuffix(i)) <= splitLog.maxLine2
SplitDiff(i) == Abs(Len(SplitPrefix(i)) - Len(SplitSuffix(i)))

\* C1: for a name of two or more words and caps that at least one split
\* point satisfies, the plan is the split that satisfies both caps with the
\* smallest length difference, the earliest such split among equal
\* differences, and neither line is truncated.
C1_BalancedSplit ==
  (/\ splitLog.path # "none"
   /\ splitArgs.name # <<>>
   /\ Len(SplitWords) >= 2
   /\ \E i \in SplitPoints : SplitFits(i))
  => \E i \in SplitPoints :
       /\ SplitFits(i)
       /\ \A j \in SplitPoints :
            SplitFits(j) =>
              \/ SplitDiff(i) < SplitDiff(j)
              \/ SplitDiff(i) = SplitDiff(j) /\ i <= j
       /\ plan = [line1 |-> SplitPrefix(i), line2 |-> SplitSuffix(i)]

\* a three-word name whose two split points both fit with the same
\* difference, split after the first word
C1_Witness ==
  /\ splitLog.path = "balanced"
  /\ Len(SplitWords) = 3
  /\ SplitFits(1) /\ SplitFits(2)
  /\ SplitDiff(1) = SplitDiff(2)
  /\ plan = [line1 |-> SplitPrefix(1), line2 |-> SplitSuffix(1)]

\* C2: both lines of the plan are within the effective caps, also after a
\* truncation.
C2_LinesWithinCaps ==
  splitLog.path \in {"single", "balanced", "fallback"} =>
    /\ Len(plan.line1) <= splitLog.max1
    /\ Len(plan.line2) <= splitLog.max2

CapExpected(raw, effective) ==
  IF raw.kind = "num" THEN effective = Max(1, raw.v) ELSE effective = 15

\* C8: the effective cap is 15 for a missing or non-finite cap and
\* max(1, c) for every finite c, 0 and negative c included.
C8_EffectiveCap ==
  splitLog.path \in {"single", "balanced", "fallback"} =>
    /\ CapExpected(splitArgs.rawMax1, splitLog.max1)
    /\ CapExpected(splitArgs.rawMax2, splitLog.max2)

\* the number of leading words that fit line 1 together
LongestPrefix ==
  LET fit == {k \in 0..Len(SplitWords) : Len(SplitPrefix(k)) <= splitLog.max1}
  IN CHOOSE k \in fit : \A j \in fit : j <= k

\* C9: on the fallback path line1 is, before truncation, the longest prefix
\* of the words that fits maxLine1 and line2 is all the remaining words in
\* their order.
C9_GreedyPrefix ==
  splitLog.path = "fallback" =>
    /\ splitLog.fill.line1 = SplitPrefix(LongestPrefix)
    /\ splitLog.fill.line2 = SplitSuffix(LongestPrefix)

----------------------------------------------------------------------------
(* Properties of truncateToMaxChars (SpecTrunc) *)

\* C7: truncating a result of truncateToMaxChars again with the same cap
\* gives the same text.
C7_TruncateIdempotent ==
  \A i \in 1..Len(truncResults) : truncResults[i] = truncResults[1]

\* the first call cut the text behind a space, stripped it and appended the
\* marker, and the call was repeated
C7_Witness ==
  /\ Len(truncResults) >= 2
  /\ truncArgs.maxChars >= 2
  /\ Len(truncArgs.text) > truncArgs.maxChars
  /\ IsSpace(truncArgs.text[truncArgs.maxChars])
  /\ ~IsSpace(truncArgs.text[1])
  /\ truncResults[1][Len(truncResults[1])] = "."
  /\ Len(truncResults[1]) <= truncArgs.maxChars

----------------------------------------------------------------------------
(* Properties of the layout (SpecRender), of every call in flight *)

\* n is the integer nearest to mm / 25.4 * dpi, dpi = d / DpiDen
NearestPx(n, mm, d) ==
  /\ (2 * n - 1) * 254 * DpiDen <= 2 * 10 * mm * d
  /\ 2 * 10 * mm * d < (2 * n + 1) * 254 * DpiDen

\* the final canvas of call c exists
Composed(c) == layout[c].called /\ layout[c].stage = "final"

\* C5: the final canvas is W x H for rotation 0 and 180, H x W for 90 and
\* 270, and W x H for every other rotation value.
C5_FinalCanvas ==
  \A c \in Calls :
    LET r == renderArgs[c].rotation
        W == layout[c].contentWidth
        H == layout[c].contentHeight
    IN Composed(c) =>
         IF r.kind = "num" /\ r.v \in {90, 270}
         THEN layout[c].finalWidth = H /\ layout[c].finalHeight = W
         ELSE layout[c].finalWidth = W /\ layout[c].finalHeight = H

\* rotation 270 swapped the sides of a canvas that is not square, and the
\* PNG of it was returned
C5_Witness ==
  \E c \in Calls :
    /\ Composed(c)
    /\ renderOutcome[c] = "ok"
    /\ renderArgs[c].rotation = Num(270)
    /\ layout[c].contentWidth # layout[c].contentHeight
    /\ layout[c].finalWidth = layout[c].contentHeight
    /\ layout[c].finalHeight = layout[c].contentWidth

\* an unsupported rotation left the sides as they are
C5_WitnessUnsupported ==
  \E c \in Calls :
    /\ Composed(c)
    /\ renderArgs[c].rotation = Num(45)
    /\ layout[c].finalWidth = layout[c].contentWidth
    /\ layout[c].finalHeight = layout[c].contentHeight

\* C6: the content canvas is round(80/25.4*dpi) wide and round(50/25.4*dpi)
\* high for the effective dpi in [72, 1200], wider than high, and 945 x 591
\* at dpi 300.
C6_ContentCanvas ==
  \A c \in Calls :
    LET d == layout[c].clampedDpi
    IN layout[c].called =>
         /\ MIN_DPI * DpiDen <= d /\ d <= MAX_DPI * DpiDen
         /\ NearestPx(layout[c].contentWidth, 80, d)
         /\ NearestPx(layout[c].contentHeight, 50, d)
         /\ layout[c].contentWidth > layout[c].contentHeight
         /\ d = 300 * DpiDen =>
              layout[c].contentWidth = 945 /\ layout[c].contentHeight = 591

\* a request without dpi got the 945 x 591 canvas, while the other call was
\* still waiting for its QR
C6_Witness ==
  /\ layout[1].called
  /\ renderInput[1].via = "parsed"
  /\ renderInput[1].dpi = Undefined
  /\ layout[1].clampedDpi = DEFAULT_DPI * DpiDen
  /\ layout[1].contentWidth = 945
  /\ layout[1].contentHeight = 591
  /\ renderOutcome[1] = "ok"
  /\ at[2] = "toBuffer"

\* C10: a drawn QR and the space reserved for the category stay above the
\* bottom padding line.
C10_QrAboveBottomPadding ==
  \A c \in Calls :
    LET reserve == IF layout[c].hasCategory
                   THEN layout[c].categoryGap + layout[c].categoryFontSize
                   ELSE 0
    IN (layout[c].called /\ layout[c].qrDrawn) =>
         layout[c].qrY + layout[c].qrSize + reserve
           <= layout[c].contentHeight - 30

\* a QR with a category below it that the clamp moved up to the limit
C10_Witness ==
  \E c \in Calls :
    /\ layout[c].called
    /\ layout[c].qrDrawn
    /\ layout[c].categoryDrawn
    /\ layout[c].line2 = <<>>
    /\ layout[c].qrY + layout[c].qrSize + layout[c].categoryGap
         + layout[c].categoryFontSize = layout[c].contentHeight - 30
    /\ layout[c].catY + layout[c].categoryFontSize
         = layout[c].contentHeight - 30

\* C11: a drawn QR starts at or below the bottom edge of the last drawn
\* text line (the top of that line plus its font size), so it never
\* overlaps the name.
C11_QrBelowText ==
  \A c \in Calls :
    LET lastBottomV ==
          IF layout[c].line2 # <<>>
          THEN layout[c].line2YV + layout[c].secondFontSize * VIRTUAL_H
          ELSE layout[c].line1YV + layout[c].titleFontSize * VIRTUAL_H
    IN (layout[c].called /\ layout[c].qrDrawn /\ layout[c].line1 # <<>>) =>
         layout[c].qrY * VIRTUAL_H >= lastBottomV

----------------------------------------------------------------------------
(* Properties of the request handler (SpecHandle), of every request in     *)
(* flight                                                                  *)

NameParamEmpty(c) ==
  request[c].name.kind # "str" \/ Trim(request[c].name.v) = <<>>

QrParamGiven(c) == request[c].qr.kind = "str" /\ Trim(request[c].qr.v) # <<>>

\* the request is answered
Answered(c) == response[c].status # 0

ValidationFailure(c) ==
  /\ response[c].status = 400
  /\ response[c].body = "missing name"
  /\ ~response[c].image
  /\ renderOutcome[c] = "none"
  /\ renderArgs[c] = NoArgs
  /\ layout[c] = NoLayout

\* C3: a request whose name is missing or empty after trimming is answered
\* with the validation failure, without a call of renderBadgePng and without
\* image bytes, whatever qr is and whatever the store returns.
C3_EmptyNameRejected ==
  \A c \in Calls : (Answered(c) /\ NameParamEmpty(c)) => ValidationFailure(c)

\* C3 as amended: the same, for the requests where the lookup supplies no
\* name either.
C3_EmptyNameRejectedUnlessResolved ==
  \A c \in Calls :
    (/\ Answered(c)
     /\ NameParamEmpty(c)
     /\ ~(QrParamGiven(c) /\ HasName(storeReply[c])))
      => ValidationFailure(c)

\* an empty name with a qr whose participant row has a category and a blank
\* name was rejected
C3_Witness ==
  \E c \in Calls :
    /\ NameParamEmpty(c)
    /\ QrParamGiven(c)
    /\ storeReply[c].found
    /\ storeReply[c].name = Text(<<" ">>)
    /\ storeReply[c].category = Text(<<"b">>)
    /\ ValidationFailure(c)

\* C4: with a name and a qr whose lookup returns nothing the request is not
\* an error: renderBadgePng is called without QR payload and category, and
\* the image has the name only.
C4_LookupMissRendersNameOnly ==
  \A c \in Calls :
    (Answered(c) /\ ~NameParamEmpty(c) /\ QrParamGiven(c)
       /\ ~storeReply[c].found)
      => /\ renderOutcome[c] # "none"
         /\ response[c].status # 400
         /\ renderArgs[c].name = Trim(request[c].name.v)
         /\ renderArgs[c].qrText = NoText
         /\ renderArgs[c].category = NoText
         /\ layout[c].called =>
              /\ layout[c].line1 # <<>>
              /\ ~layout[c].qrDrawn
              /\ ~layout[c].categoryDrawn
         /\ renderOutcome[c] = "ok" =>
              /\ response[c].status = 200
              /\ response[c].image
              /\ Composed(c)

\* a lookup that found no row ended in an image
C4_Witness ==
  \E c \in Calls :
    /\ ~NameParamEmpty(c)
    /\ QrParamGiven(c)
    /\ storeReply[c] = NoRow("no row")
    /\ renderOutcome[c] = "ok"
    /\ response[c].status = 200
    /\ Composed(c)
    /\ ~layout[c].qrDrawn

====
